---- MODULE Spec2Model ----
(***************************************************************************)
(* Model of cmd/blueprints/add_execution.go: the command                   *)
(*   landscaper-cli blueprints add execution <blueprint dir> <name>        *)
(* Strings are sequences of chunks, files are sequences of chunks, and the *)
(* file system maps each path of the blueprint directory to an entry.      *)
(* Every system call of the command is one step of the invocation, so that *)
(* two invocations on the same directory interleave as processes do.       *)
(***************************************************************************)
EXTENDS Integers, Sequences, FiniteSets, TLC

\* ------------------------------------------------------------------ bounds
\* number of invocations of the command in one history
MaxAdds == 2

\* the invocations that can be alive at the same time
Procs == {"p1", "p2"}

\* execution names given on the command line ("b" is a prefix of "bb")
Names == {<<"b">>, <<"b", "b">>}

\* ------------------------------------------------------------ file system
AbsentEntry == [kind |-> "absent", data |-> <<>>]
DirEntry == [kind |-> "dir", data |-> <<>>]
FileEntry(d) == [kind |-> "file", data |-> d]

\* lsv1alpha1.BlueprintFileName, the file readBlueprint reads
BlueprintFileName == <<"blueprint.yaml">>

\* blueprintFilename, the file writeBlueprint creates
blueprintFilename == <<"blueprint.yaml">>

getExecutionFileName(name) == name \o <<"DeployExecution.yaml">>

\* filepath.Join(o.blueprintPath, file): paths are relative to the directory
getExecutionFilePath(name) == getExecutionFileName(name)

Paths == {BlueprintFileName, blueprintFilename} \cup {getExecutionFilePath(n) : n \in Names}

\* the content createExecutionFile writes, in two chunks
DefaultDeployItems == <<"deployItems:", " []">>

\* --------------------------------------------------------------- documents
HDR == "deployExecutions:"
K_FILE == "- file:"
K_NAME == "name:"
K_TYPE == "type:"
EOL == "EOL"
Keys == <<K_FILE, K_NAME, K_TYPE>>

TemplateExecutor(name, type, file) == [name |-> name, type |-> type, file |-> file]

\* yaml.Marshal of one list element: keys in alphabetical order
MarshalExecution(e) ==
    <<K_FILE>> \o e.file \o <<EOL, K_NAME>> \o e.name \o <<EOL, K_TYPE>> \o e.type \o <<EOL>>

RECURSIVE MarshalExecutions(_)
MarshalExecutions(execs) ==
    IF execs = <<>> THEN <<>>
    ELSE MarshalExecution(Head(execs)) \o MarshalExecutions(Tail(execs))

\* yaml.Marshal(blueprint)
Marshal(execs) == <<HDR>> \o MarshalExecutions(execs)

IsVal(t) == t \notin {HDR, K_FILE, K_NAME, K_TYPE, EOL}

RECURSIVE ValEnd(_, _)
ValEnd(s, i) == IF i <= Len(s) /\ IsVal(s[i]) THEN ValEnd(s, i + 1) ELSE i

Pad(vals) == vals \o [x \in 1..(3 - Len(vals)) |-> <<>>]

ParseFail == [ok |-> FALSE, vals |-> <<>>, next |-> 0]

\* the fields of one list element from position i on; a document that ends
\* inside an element leaves the remaining fields empty
RECURSIVE ParseFields(_, _, _, _)
ParseFields(s, i, k, acc) ==
    IF k > 3 \/ i > Len(s) THEN [ok |-> TRUE, vals |-> Pad(acc), next |-> i]
    ELSE IF s[i] # Keys[k] THEN ParseFail
    ELSE LET j == ValEnd(s, i + 1)
             val == SubSeq(s, i + 1, j - 1)
         IN  IF j > Len(s) THEN [ok |-> TRUE, vals |-> Pad(Append(acc, val)), next |-> j]
             ELSE IF s[j] # EOL THEN ParseFail
             ELSE ParseFields(s, j + 1, k + 1, Append(acc, val))

DecodeFail == [ok |-> FALSE, execs |-> <<>>]

RECURSIVE ParseExecutions(_, _, _)
ParseExecutions(s, i, acc) ==
    IF i > Len(s) THEN [ok |-> TRUE, execs |-> acc]
    ELSE IF s[i] # K_FILE THEN DecodeFail
    ELSE LET r == ParseFields(s, i, 1, <<>>)
         IN  IF ~r.ok THEN DecodeFail
             ELSE ParseExecutions(s, r.next,
                      Append(acc, TemplateExecutor(r.vals[2], r.vals[3], r.vals[1])))

\* UniversalDecoder().Decode(data, nil, blueprint)
Decode(data) ==
    IF Len(data) = 0 \/ data[1] # HDR THEN DecodeFail
    ELSE ParseExecutions(data, 2, <<>>)

\* ------------------------------------------------------------------- state
VARIABLES
    fs,          \* path -> entry: the blueprint directory
    pc,          \* per invocation: the step of run it is at
    name,        \* o.name
    blueprint,   \* the in-memory blueprint.DeployExecutions
    loaded,      \* history: DeployExecutions as readBlueprint returned them
    statResult,  \* the locals (exists, err) of run after existsExecutionFile
    data,        \* the local data of writeBlueprint
    result,      \* what run returned
    iofail,      \* history: a system call or Marshal of the invocation failed
    fsops,       \* history: the system calls of the invocation, <<call, path>>
    startFs,     \* history: the directory when the invocation started
    adds,        \* number of invocations started
    added,       \* history: names whose Add returned nil
    lastWriter   \* history: the invocation whose f.Write on the blueprint came last

vars == <<fs, pc, name, blueprint, loaded, statResult, data, result, iofail, fsops,
          startFs, adds, added, lastWriter>>

NoStat == [exists |-> FALSE, err |-> "unset"]

\* blueprints found on disk before the first invocation
InitBlueprints ==
    { <<>>,
      <<TemplateExecutor(<<"b", "b">>, <<"GoTemplate">>, <<"/", "b", "b", "DeployExecution.yaml">>)>>,
      <<TemplateExecutor(<<"b">>, <<"Spiff">>, <<"/", "x.yaml">>)>> }

InitEntries(p) ==
    IF p = BlueprintFileName
    THEN {AbsentEntry} \cup {FileEntry(Marshal(d)) : d \in InitBlueprints}
    ELSE {AbsentEntry, DirEntry, FileEntry(<<"user">>)}

Init ==
    /\ fs \in {f \in [Paths -> UNION {InitEntries(p) : p \in Paths}] :
                  \A p \in Paths : f[p] \in InitEntries(p)}
    /\ pc = [p \in Procs |-> "idle"]
    /\ name = [p \in Procs |-> <<>>]
    /\ blueprint = [p \in Procs |-> <<>>]
    /\ loaded = [p \in Procs |-> <<>>]
    /\ statResult = [p \in Procs |-> NoStat]
    /\ data = [p \in Procs |-> <<>>]
    /\ result = [p \in Procs |-> "none"]
    /\ iofail = [p \in Procs |-> FALSE]
    /\ fsops = [p \in Procs |-> {}]
    /\ startFs = [p \in Procs |-> fs]
    /\ adds = 0
    /\ added = {}
    /\ lastWriter = "none"

\* ----------------------------------------------------------------- helpers
\* a write of chunks d through a descriptor at offset 0
WriteAt_append(old, d) == old \o d

WriteAt(old, d) == d \o SubSeq(old, Len(d) + 1, Len(old))

existsExecution_skipFirst(execs, n) == \E i \in 2..Len(execs) : execs[i].name = n

existsExecution(execs, n) == \E i \in 1..Len(execs) : execs[i].name = n

addExecution_prepend(execs, n) ==
    <<TemplateExecutor(n, <<"GoTemplate">>, <<"/">> \o getExecutionFileName(n))>> \o execs

addExecution(execs, n) ==
    Append(execs, TemplateExecutor(n, <<"GoTemplate">>, <<"/">> \o getExecutionFileName(n)))

existsExecutionFile_noDirCheck(fsys, n, ioerr) ==
    LET e == fsys[getExecutionFilePath(n)]
    IN  IF ioerr THEN [exists |-> FALSE, err |-> "StatError"]
        ELSE IF e.kind = "absent" THEN [exists |-> FALSE, err |-> "nil"]
        ELSE [exists |-> TRUE, err |-> "nil"]

\* os.Stat and the two results of existsExecutionFile; ioerr: Stat fails with
\* an error other than "not exist"
existsExecutionFile(fsys, n, ioerr) ==
    LET e == fsys[getExecutionFilePath(n)]
    IN  IF ioerr THEN [exists |-> FALSE, err |-> "StatError"]
        ELSE IF e.kind = "absent" THEN [exists |-> FALSE, err |-> "nil"]
        ELSE IF e.kind = "dir" THEN [exists |-> TRUE, err |-> "PathConflictError"]
        ELSE [exists |-> TRUE, err |-> "nil"]

afterExistsExecutionFile_alwaysCreate(res) ==
    IF res.err # "nil" THEN "done" ELSE "createExecutionFile"

afterExistsExecutionFile_skipCreate(res) ==
    IF res.err # "nil" THEN "done" ELSE "addExecution"

afterExistsExecutionFile_boolOnly(res) ==
    IF ~res.exists THEN (IF res.err # "nil" THEN "done" ELSE "createExecutionFile")
    ELSE "addExecution"

\* run, after existsExecutionFile returned: the step it goes to
afterExistsExecutionFile(res) ==
    IF res.err # "nil" THEN "done"
    ELSE IF ~res.exists THEN "createExecutionFile"
    ELSE "addExecution"

Log(p, call, path) == fsops' = [fsops EXCEPT ![p] = @ \cup {<<call, path>>}]

IoFail(p, failed) == iofail' = [iofail EXCEPT ![p] = @ \/ failed]

Fail(p, e) ==
    /\ pc' = [pc EXCEPT ![p] = "done"]
    /\ result' = [result EXCEPT ![p] = e]

\* ----------------------------------------------------------------- actions
\* Complete(args) and the call of run
Start(p, n) ==
    /\ adds < MaxAdds
    /\ pc[p] \in {"idle", "done"}
    /\ adds' = adds + 1
    /\ name' = [name EXCEPT ![p] = n]
    /\ pc' = [pc EXCEPT ![p] = "readBlueprint"]
    /\ blueprint' = [blueprint EXCEPT ![p] = <<>>]
    /\ loaded' = [loaded EXCEPT ![p] = <<>>]
    /\ statResult' = [statResult EXCEPT ![p] = NoStat]
    /\ data' = [data EXCEPT ![p] = <<>>]
    /\ result' = [result EXCEPT ![p] = "none"]
    /\ iofail' = [iofail EXCEPT ![p] = FALSE]
    /\ fsops' = [fsops EXCEPT ![p] = {}]
    /\ startFs' = [startFs EXCEPT ![p] = fs]
    /\ UNCHANGED <<fs, added, lastWriter>>

\* readBlueprint: ioutil.ReadFile, then Decode
ReadBlueprint(p) ==
    /\ pc[p] = "readBlueprint"
    /\ Log(p, "read", BlueprintFileName)
    /\ \E ioerr \in BOOLEAN :
          LET e == fs[BlueprintFileName]
              d == Decode(e.data)
          IN  /\ IoFail(p, ioerr)
              /\ IF ioerr \/ e.kind # "file" \/ ~d.ok
                 THEN /\ Fail(p, "LoadError")
                      /\ UNCHANGED <<blueprint, loaded>>
                 ELSE /\ blueprint' = [blueprint EXCEPT ![p] = d.execs]
                      /\ loaded' = [loaded EXCEPT ![p] = d.execs]
                      /\ pc' = [pc EXCEPT ![p] = "existsExecution"]
                      /\ UNCHANGED result
    /\ UNCHANGED <<fs, name, statResult, data, startFs, adds, added, lastWriter>>

\* run: if o.existsExecution(blueprint) { return error }
ExistsExecution(p) ==
    /\ pc[p] = "existsExecution"
    /\ IF existsExecution(blueprint[p], name[p])
       THEN Fail(p, "DuplicateExecutionError")
       ELSE /\ pc' = [pc EXCEPT ![p] = "existsExecutionFile"]
            /\ UNCHANGED result
    /\ UNCHANGED <<fs, name, blueprint, loaded, statResult, data, iofail, fsops,
                   startFs, adds, added, lastWriter>>

\* run: exists, err := o.existsExecutionFile(); if err != nil { return err }
ExistsExecutionFile(p) ==
    /\ pc[p] = "existsExecutionFile"
    /\ Log(p, "stat", getExecutionFilePath(name[p]))
    /\ \E ioerr \in BOOLEAN :
          LET res == existsExecutionFile(fs, name[p], ioerr)
          IN  /\ IoFail(p, ioerr)
              /\ statResult' = [statResult EXCEPT ![p] = res]
              /\ pc' = [pc EXCEPT ![p] = afterExistsExecutionFile(res)]
              /\ result' = [result EXCEPT ![p] =
                     IF afterExistsExecutionFile(res) = "done" THEN res.err ELSE @]
    /\ UNCHANGED <<fs, name, blueprint, loaded, data, startFs, adds, added, lastWriter>>

\* createExecutionFile: os.Create
CreateExecutionFileCreate(p) ==
    /\ pc[p] = "createExecutionFile"
    /\ Log(p, "create", getExecutionFilePath(name[p]))
    /\ \E ioerr \in BOOLEAN :
          LET path == getExecutionFilePath(name[p])
          IN  /\ IoFail(p, ioerr)
              /\ IF ioerr \/ fs[path].kind = "dir"
                 THEN /\ Fail(p, "WriteError")
                      /\ UNCHANGED fs
                 ELSE /\ fs' = [fs EXCEPT ![path] = FileEntry(<<>>)]
                      /\ pc' = [pc EXCEPT ![p] = "writeExecutionFile"]
                      /\ UNCHANGED result
    /\ UNCHANGED <<name, blueprint, loaded, statResult, data, startFs, adds, added,
                   lastWriter>>

\* createExecutionFile: f.WriteString; n chunks reach the file
CreateExecutionFileWrite(p) ==
    /\ pc[p] = "writeExecutionFile"
    /\ Log(p, "write", getExecutionFilePath(name[p]))
    /\ \E n \in 0..Len(DefaultDeployItems) :
          LET path == getExecutionFilePath(name[p])
          IN  /\ fs' = [fs EXCEPT ![path] =
                     FileEntry(WriteAt(@.data, SubSeq(DefaultDeployItems, 1, n)))]
              /\ IoFail(p, n < Len(DefaultDeployItems))
              /\ IF n = Len(DefaultDeployItems)
                 THEN /\ pc' = [pc EXCEPT ![p] = "addExecution"]
                      /\ UNCHANGED result
                 ELSE Fail(p, "WriteError")
    /\ UNCHANGED <<name, blueprint, loaded, statResult, data, startFs, adds, added,
                   lastWriter>>

\* run: o.addExecution(blueprint)
AddExecution(p) ==
    /\ pc[p] = "addExecution"
    /\ blueprint' = [blueprint EXCEPT ![p] = addExecution(@, name[p])]
    /\ pc' = [pc EXCEPT ![p] = "writeBlueprint"]
    /\ UNCHANGED <<fs, name, loaded, statResult, data, result, iofail, fsops, startFs,
                   adds, added, lastWriter>>

\* writeBlueprint: yaml.Marshal, then os.Create
WriteBlueprintCreate(p) ==
    /\ pc[p] = "writeBlueprint"
    /\ \E merr \in BOOLEAN, ioerr \in BOOLEAN :
          IF merr
          THEN /\ Fail(p, "WriteError")
               /\ IoFail(p, TRUE)
               /\ UNCHANGED <<fs, data, fsops>>
          ELSE /\ data' = [data EXCEPT ![p] = Marshal(blueprint[p])]
               /\ Log(p, "create", blueprintFilename)
               /\ IoFail(p, ioerr)
               /\ IF ioerr \/ fs[blueprintFilename].kind = "dir"
                  THEN /\ Fail(p, "WriteError")
                       /\ UNCHANGED fs
                  ELSE /\ fs' = [fs EXCEPT ![blueprintFilename] = FileEntry(<<>>)]
                       /\ pc' = [pc EXCEPT ![p] = "writeBlueprintData"]
                       /\ UNCHANGED result
    /\ UNCHANGED <<name, blueprint, loaded, statResult, startFs, adds, added, lastWriter>>

\* writeBlueprint: f.Write(data); n chunks reach the file
WriteBlueprintWrite(p) ==
    /\ pc[p] = "writeBlueprintData"
    /\ Log(p, "write", blueprintFilename)
    /\ lastWriter' = p
    /\ \E n \in 0..Len(data[p]) :
          /\ fs' = [fs EXCEPT ![blueprintFilename] =
                 FileEntry(WriteAt(@.data, SubSeq(data[p], 1, n)))]
          /\ IoFail(p, n < Len(data[p]))
          /\ IF n = Len(data[p])
             THEN /\ pc' = [pc EXCEPT ![p] = "done"]
                  /\ result' = [result EXCEPT ![p] = "ok"]
                  /\ added' = added \cup {name[p]}
             ELSE /\ Fail(p, "WriteError")
                  /\ UNCHANGED added
    /\ UNCHANGED <<name, blueprint, loaded, statResult, data, startFs, adds>>

Step(p) ==
    \/ ReadBlueprint(p)
    \/ ExistsExecution(p)
    \/ ExistsExecutionFile(p)
    \/ CreateExecutionFileCreate(p)
    \/ CreateExecutionFileWrite(p)
    \/ AddExecution(p)
    \/ WriteBlueprintCreate(p)
    \/ WriteBlueprintWrite(p)

\* one invocation after the other
StartSeq == \E n \in Names : Start("p1", n)

Next == StartSeq \/ \E p \in Procs : Step(p)

Spec == Init /\ [][Next]_vars

\* two invocations at the same time, each run once
StartConc == \E p \in Procs, n \in Names : result[p] = "none" /\ pc[p] = "idle" /\ Start(p, n)

NextConc == StartConc \/ \E p \in Procs : Step(p)

SpecConc == Init /\ [][NextConc]_vars

\* ------------------------------------------------------------------ claims
Done(p) == pc[p] = "done"

Companion(p) == getExecutionFilePath(name[p])

OnDisk == Decode(fs[BlueprintFileName].data)

NewRecord(n) ==
    [name |-> n, type |-> <<"GoTemplate">>, file |-> <<"/">> \o n \o <<"DeployExecution.yaml">>]

HasName(execs, n) == \E i \in 1..Len(execs) : execs[i].name = n

Loaded(p) == pc[p] \notin {"idle", "readBlueprint"} /\ result[p] # "LoadError"

Touched(p) == {op \in fsops[p] : op[1] \in {"create", "write"}}

\* C1: when the name is not in the loaded list, the companion path is absent
\* or a regular file and no I/O error occurs, Add succeeds, and the blueprint
\* file read back holds the loaded list followed by exactly one new record
\* (name, "GoTemplate", "/<name>DeployExecution.yaml"); earlier records keep
\* their values and positions.
C1_AddAppendsRecord ==
    \A p \in Procs :
        /\ ( /\ Done(p) /\ Loaded(p) /\ ~iofail[p]
             /\ ~HasName(loaded[p], name[p])
             /\ startFs[p][Companion(p)].kind \in {"absent", "file"} )
           => result[p] = "ok"
        /\ (Done(p) /\ result[p] = "ok")
           => /\ OnDisk.ok
              /\ Len(OnDisk.execs) = Len(loaded[p]) + 1
              /\ OnDisk.execs[Len(OnDisk.execs)] = NewRecord(name[p])
              /\ \A i \in 1..Len(loaded[p]) : OnDisk.execs[i] = loaded[p][i]
              /\ loaded[p] = Decode(startFs[p][BlueprintFileName].data).execs

C1_Witness ==
    \E p \in Procs :
        /\ Done(p) /\ result[p] = "ok"
        /\ Len(loaded[p]) = 1 /\ loaded[p][1].type = <<"Spiff">>
        /\ OnDisk.execs = <<loaded[p][1], NewRecord(<<"b", "b">>)>>

\* C2: when the loaded blueprint already holds an execution of the given name,
\* Add fails with DuplicateExecutionError, no file is created or written, and
\* the companion path is not inspected: the only system call is the read of
\* the blueprint.
C2_DuplicateTouchesNothing ==
    \A p \in Procs :
        /\ (Loaded(p) /\ pc[p] # "existsExecution" /\ HasName(loaded[p], name[p]))
           => Done(p) /\ result[p] = "DuplicateExecutionError"
        /\ (Done(p) /\ result[p] = "DuplicateExecutionError")
           => /\ HasName(loaded[p], name[p])
              /\ fs = startFs[p]
              /\ fsops[p] = {<<"read", BlueprintFileName>>}
              /\ statResult[p] = NoStat

C2_Witness ==
    \E p \in Procs :
        /\ Done(p) /\ result[p] = "DuplicateExecutionError"
        /\ name[p] \in added
        /\ Len(loaded[p]) = 2 /\ loaded[p][2].name = name[p]

\* C3: starting from pairwise distinct execution names, after any sequence of
\* sequential Adds the execution names in the blueprint file on disk are
\* pairwise distinct.
C3_NamesStayDistinct ==
    OnDisk.ok =>
        \A i, j \in 1..Len(OnDisk.execs) :
            OnDisk.execs[i].name = OnDisk.execs[j].name => i = j

\* C4: when the blueprint loads, the name is new and the companion path is a
\* directory, Add fails with PathConflictError (or with the error of Stat when
\* Stat itself fails); no record is appended and no file is created or
\* written.
C4_DirectoryConflictFails ==
    \A p \in Procs :
        ( /\ Done(p) /\ Loaded(p)
          /\ ~HasName(loaded[p], name[p])
          /\ startFs[p][Companion(p)].kind = "dir" )
        => /\ result[p] \in {"PathConflictError", "StatError"}
           /\ ~iofail[p] => result[p] = "PathConflictError"
           /\ blueprint[p] = loaded[p]
           /\ fs = startFs[p]
           /\ Touched(p) = {}

C4_Witness ==
    \E p \in Procs :
        /\ Done(p) /\ result[p] = "PathConflictError"
        /\ startFs[p][Companion(p)] = DirEntry
        /\ Len(loaded[p]) = 1
        /\ fs[blueprintFilename] = FileEntry(Marshal(loaded[p]))

\* C5: when the companion path is a regular file at the start of Add, Add
\* neither creates nor writes it: at every step and for every outcome its
\* content is the content it had.
C5_ExistingCompanionKept ==
    \A p \in Procs :
        (pc[p] # "idle" /\ startFs[p][Companion(p)].kind = "file")
        => /\ fs[Companion(p)] = startFs[p][Companion(p)]
           /\ \A op \in Touched(p) : op[2] # Companion(p)

C5_Witness ==
    \E p \in Procs :
        /\ Done(p) /\ result[p] = "ok"
        /\ startFs[p][Companion(p)] = FileEntry(<<"user">>)
        /\ fs[Companion(p)] = FileEntry(<<"user">>)

\* C6: when the companion path is absent after the duplicate check, Add
\* creates it with the default content before it appends the record and
\* creates the blueprint file; whenever Add succeeds the companion path is a
\* regular file.
C6_CompanionCreatedFirst ==
    \A p \in Procs :
        /\ (pc[p] \in {"addExecution", "writeBlueprint", "writeBlueprintData"}
              \/ (Done(p) /\ result[p] = "ok"))
           => /\ fs[Companion(p)].kind = "file"
              /\ startFs[p][Companion(p)].kind = "absent"
                    => fs[Companion(p)].data = DefaultDeployItems
        /\ pc[p] \in {"createExecutionFile", "writeExecutionFile"}
           => /\ blueprint[p] = loaded[p]
              /\ fs[blueprintFilename] = startFs[p][blueprintFilename]
              /\ startFs[p][Companion(p)].kind = "absent"

C6_Witness ==
    \E p \in Procs :
        /\ Done(p) /\ result[p] = "ok"
        /\ startFs[p][Companion(p)] = AbsentEntry
        /\ fs[Companion(p)] = FileEntry(DefaultDeployItems)
        /\ loaded[p] = <<>>
        /\ OnDisk.execs = <<NewRecord(name[p])>>

\* C7: whenever Add returns an error, at whichever step, the blueprint file
\* holds exactly the content it had when the invocation started.
C7_FailureKeepsBlueprint ==
    \A p \in Procs :
        (Done(p) /\ result[p] # "ok")
        => fs[blueprintFilename] = startFs[p][blueprintFilename]

\* C8 as stated: after the existence check returned (exists = true,
\* PathConflictError), run looks at the boolean alone and goes on to append
\* and persist, so the conflict is not what Add returns.
C8_ConflictNotSurfaced ==
    \A p \in Procs :
        (statResult[p].exists /\ statResult[p].err = "PathConflictError")
        => /\ pc[p] \in {"addExecution", "writeBlueprint", "writeBlueprintData", "done"}
           /\ result[p] # "PathConflictError"

\* C8 amended: the existence check returns (exists = true, PathConflictError)
\* for a directory, and run inspects the error before the boolean: it returns
\* PathConflictError at once, appends no record and creates or writes no file.
C8_ConflictSurfaced ==
    \A p \in Procs :
        /\ statResult[p].err = "PathConflictError" => statResult[p].exists
        /\ (statResult[p].exists /\ statResult[p].err = "PathConflictError")
           => /\ Done(p)
              /\ result[p] = "PathConflictError"
              /\ blueprint[p] = loaded[p]
              /\ Touched(p) = {}

C8_Witness ==
    \E p \in Procs :
        /\ statResult[p] = [exists |-> TRUE, err |-> "PathConflictError"]
        /\ Done(p) /\ result[p] = "PathConflictError"

\* C9: when the companion file was absent, its creation succeeded and the
\* persist of the blueprint then failed, Add returns the write error, the
\* companion file stays on disk and the blueprint on disk holds no execution
\* record referencing it.
C9_OrphanNotReferenced ==
    \A p \in Procs :
        ( /\ Done(p) /\ result[p] = "WriteError"
          /\ startFs[p][Companion(p)].kind = "absent"
          /\ blueprint[p] # loaded[p] )
        => /\ fs[Companion(p)] = FileEntry(DefaultDeployItems)
           /\ \A i \in 1..Len(OnDisk.execs) :
                 OnDisk.execs[i].file # <<"/">> \o Companion(p)

\* two invocations that both returned nil, loaded the same list (each read
\* the blueprint before the other created or wrote it) and add different names
Raced(p, q) ==
    /\ p # q
    /\ Done(p) /\ result[p] = "ok"
    /\ Done(q) /\ result[q] = "ok"
    /\ loaded[p] = loaded[q]
    /\ name[p] # name[q]
    /\ lastWriter = q

====
